---- MODULE Spec2Model ----
(***************************************************************************)
(* A model of tape/tasks/fluorescence_task.py: the embedding cache of      *)
(* FluorescenceDataset, its collate function, the sequence aligner, the    *)
(* MSA context block built at construction, the mask of the regressor's    *)
(* forward pass and the per-mode metric hooks of FluorescencePredictor.    *)
(***************************************************************************)
EXTENDS Integers, Sequences, FiniteSets, TLC

(***************************************************************************)
(* Bounds of the model.                                                    *)
(***************************************************************************)
DatasetLen == 2

MaxBatch == 2

MaxWidth == 3

MaxRows == 3

MaxSeqLen == 3

MaxBudget == 8

MaxMsaRows == 3

MaxSteps == 3

Procs == {"p1", "p2"}

VARIABLES
    \* ---- embedding cache (one dataset instance per process, one shared directory)
    files,      \* cache path of each index -> what the file system holds there
    dirExists,  \* whether the embeddings directory exists
    rce,        \* per process: its dataset's return_cached_embeddings
    pc,         \* per process: where it is
    op,         \* per process: the call it is in (or made last)
    idx,        \* per process: the index the call works on
    res,        \* per process: how its last call ended
    embed,      \* per process: the embedding its make_embedding call computed
    baseModel,  \* per process: the base_model its population call was given
    \* ---- one batch on its way through collate_fn and forward
    batchMsa,   \* use_msa of the dataset the batch comes from
    batchCached,\* return_cached_embeddings of that dataset
    featExtra,  \* positions the base model adds to a sequence (feat_len - seq_len)
    batch,      \* the list of bundles __getitem__ returned
    collated,   \* what collate_fn returned for it
    fwd,        \* what forward computed on it
    \* ---- one dataset in MSA mode or not: construction and __getitem__
    dsMsa,      \* use_msa
    maxTokens,  \* max_tokens_per_msa
    data,       \* the records' primary sequences
    msaFile,    \* the rows of fluorescence/wtGFP.a3m, insertions removed
    ds,         \* what __init__ left in the instance
    item,       \* what the last __getitem__ gave
    \* ---- the predictor's hooks, as the trainer calls them
    metrics,    \* the six metric objects, by attribute: running sum and count
    logged,     \* self.log: key -> <<>> or <<the value logged last>>
    outputs,    \* per mode, the step outputs the trainer keeps for the epoch end
    pending,    \* the output of *_step the trainer hands to *_step_end
    globalStep, \* steps taken so far
    hookError   \* a hook has raised

cacheVars == <<files, dirExists, rce, pc, op, idx, res, embed, baseModel>>

batchVars == <<batchMsa, batchCached, featExtra, batch, collated, fwd>>

datasetVars == <<dsMsa, maxTokens, data, msaFile, ds, item>>

driverVars == <<metrics, logged, outputs, pending, globalStep, hookError>>

vars == <<cacheVars, batchVars, datasetVars, driverVars>>

(***************************************************************************)
(* The embedding cache.                                                    *)
(***************************************************************************)
Indices == 0 .. DatasetLen - 1

\* torch.save writes the file piece by piece, each writer at its own offset.
Pieces == {"head", "rest"}

\* embed = base_model.extract_features(**net_input)[0]: the values depend on the
\* base model the call was given and, the model not being put in eval mode, on
\* the call; two calls for one index may compute different embeddings.
Embeddings == {"e1", "e2"}

NoContent == [piece \in Pieces |-> "none"]

\* What a file is, by the bytes it holds: "partial" while a piece is missing,
\* "tensor" when every piece comes from one embedding, "mixed" when the pieces
\* come from different embeddings (a file no call computed).
FileKind(content) ==
    IF \E piece \in Pieces : content[piece] = "none" THEN "partial"
    ELSE IF \A a, b \in Pieces : content[a] = content[b] THEN "tensor"
    ELSE "mixed"

FileOf(index, content) ==
    [kind |-> FileKind(content),
     index |-> IF FileKind(content) = "tensor" THEN index ELSE 0,
     content |-> content]

Absent == [kind |-> "absent", index |-> 0, content |-> NoContent]

\* The file right after open(path, "wb"): it exists and holds nothing.
Emptied == FileOf(0, NoContent)

\* The completely written tensor of embedding e for an index.
Embed(index, e) == FileOf(index, [piece \in Pieces |-> e])

\* A tensor an earlier run (with another base model) left in the cache.
StaleEmbed(index) == Embed(index, "earlier")

\* A writer puts one piece of its own embedding at its place in the file as it
\* is now, next to whatever pieces other writers have put there.
WritePiece(file, index, piece, e) ==
    FileOf(index, [file.content EXCEPT ![piece] = e])

\* A faulty existence test, which finds no entry ever: C1 must fail with it.
PathExistsNever(f, index) == FALSE

\* path.exists(): a file that was opened for writing exists, whatever it holds.
PathExists(f, index) == f[index].kind # "absent"

\* A faulty load, which computes the tensor when the file is missing or
\* truncated: C4 must fail with it.
TorchLoadFallback(f, index) == {"tensor"}

\* torch.load(path), the set of its possible outcomes: a missing file raises
\* FileNotFoundError, a truncated one fails to unpickle, a complete one gives
\* the tensor.  A file of full length whose pieces come from different
\* embeddings fails to load or loads as values no call computed, depending on
\* which bytes differ.
TorchLoad(f, index) ==
    CASE f[index].kind = "absent" -> {"FileNotFoundError"}
      [] f[index].kind = "partial" -> {"UnpicklingError"}
      [] f[index].kind = "mixed" -> {"UnpicklingError", "mixed_tensor"}
      [] OTHER -> {"tensor"}

LoadErrors == {"FileNotFoundError", "UnpicklingError"}

\* The base models a population call may be given: a module with parameters,
\* or one without any.
BaseModels == {"with_parameters", "without_parameters"}

\* next(base_model.parameters()) has a first parameter to give.
HasParameters(m) == m = "with_parameters"

\* What a call of make_embedding or make_all_embeddings may raise.
PopulateErrors == LoadErrors \cup {"StopIteration"}

\* __getitem__: tokenizes, and with return_cached_embeddings loads the cached
\* embedding, whose failure is the failure of the call.
GetItemResult(cached, f, index) ==
    IF cached THEN TorchLoad(f, index) ELSE {"tensor"}

Modes == {"train", "valid", "test"}

MetricKinds == {"squared_error", "absolute_error"}

LogKeys == {"loss", "mse", "mae", "spearmanr"} \X Modes

NoDriver ==
    /\ metrics = [attr \in Modes \X MetricKinds |-> [sum |-> 0, total |-> 0]]
    /\ logged = [key \in LogKeys |-> <<>>]
    /\ outputs = [m \in Modes |-> <<>>]
    /\ pending = [status |-> "none", mode |-> "train", prediction |-> <<>>, target |-> <<>>]
    /\ globalStep = 0
    /\ hookError = FALSE

NoDataset ==
    /\ dsMsa = FALSE
    /\ maxTokens = 0
    /\ data = <<>>
    /\ msaFile = <<>>
    /\ ds = [status |-> "none"]
    /\ item = [status |-> "none"]

NoBatch ==
    /\ batchMsa = FALSE
    /\ batchCached = FALSE
    /\ featExtra = 0
    /\ batch = <<>>
    /\ collated = [status |-> "none"]
    /\ fwd = [status |-> "none"]

CacheInit ==
    /\ NoBatch
    /\ NoDataset
    /\ NoDriver
    /\ files \in [Indices -> {Absent}]
                 \cup {f \in [Indices -> {Absent} \cup {StaleEmbed(i) : i \in Indices}
                                              \cup {Embed(i, e) : i \in Indices,
                                                                   e \in Embeddings}] :
                         \A i \in Indices : f[i].kind = "tensor" => f[i].index = i}
    /\ dirExists \in BOOLEAN
    /\ (\E i \in Indices : files[i].kind # "absent") => dirExists
    /\ rce \in [Procs -> BOOLEAN]
    /\ pc = [p \in Procs |-> "idle"]
    /\ op = [p \in Procs |-> "none"]
    /\ idx = [p \in Procs |-> 0]
    /\ res = [p \in Procs |-> "none"]
    /\ embed = [p \in Procs |-> "none"]
    /\ baseModel = [p \in Procs |-> "none"]

\* cached_embedding_path(index) is called on its own: embedding_dir.mkdir(
\* exist_ok=True) makes the embeddings directory when it is not there, and the
\* path is returned; no entry is read or written.
CachedEmbeddingPath(p, i) ==
    /\ pc[p] = "idle"
    /\ dirExists' = TRUE
    /\ UNCHANGED <<files, rce, pc, op, idx, res, embed, baseModel,
                   batchVars, datasetVars, driverVars>>

\* make_embedding(base_model, index) is called.
CallMakeEmbedding(p, i, m) ==
    /\ pc[p] = "idle"
    /\ pc' = [pc EXCEPT ![p] = "device"]
    /\ op' = [op EXCEPT ![p] = "make_embedding"]
    /\ idx' = [idx EXCEPT ![p] = i]
    /\ res' = [res EXCEPT ![p] = "none"]
    /\ baseModel' = [baseModel EXCEPT ![p] = m]
    /\ UNCHANGED <<files, dirExists, rce, embed, batchVars, datasetVars, driverVars>>

\* make_all_embeddings(base_model) is called: for index in trange(len(self)),
\* self.make_embedding(base_model, index).
CallMakeAllEmbeddings(p, m) ==
    /\ pc[p] = "idle"
    /\ op' = [op EXCEPT ![p] = "make_all_embeddings"]
    /\ idx' = [idx EXCEPT ![p] = 0]
    /\ IF DatasetLen = 0
       THEN /\ pc' = pc
            /\ res' = [res EXCEPT ![p] = "returned"]
            /\ baseModel' = baseModel
       ELSE /\ pc' = [pc EXCEPT ![p] = "device"]
            /\ res' = [res EXCEPT ![p] = "none"]
            /\ baseModel' = [baseModel EXCEPT ![p] = m]
    /\ UNCHANGED <<files, dirExists, rce, embed, batchVars, datasetVars, driverVars>>

\* make_embedding returns: the loop of make_all_embeddings calls it for the next
\* index with the same base model, or the call is over.
ReturnFromMakeEmbedding(p) ==
    IF op[p] = "make_all_embeddings" /\ idx[p] + 1 < DatasetLen
    THEN /\ idx' = [idx EXCEPT ![p] = idx[p] + 1]
         /\ pc' = [pc EXCEPT ![p] = "device"]
         /\ res' = res
         /\ baseModel' = baseModel
    ELSE /\ idx' = idx
         /\ pc' = [pc EXCEPT ![p] = "idle"]
         /\ res' = [res EXCEPT ![p] = "returned"]
         /\ baseModel' = [baseModel EXCEPT ![p] = "none"]

\* device = next(base_model.parameters()).device, the first statement of
\* make_embedding: a base model without parameters raises StopIteration here,
\* before the cache is looked at, and the exception leaves the call (and the
\* loop of make_all_embeddings around it).
MakeEmbeddingDevice(p) ==
    /\ pc[p] = "device"
    /\ IF HasParameters(baseModel[p])
       THEN /\ pc' = [pc EXCEPT ![p] = "check"]
            /\ UNCHANGED <<res, baseModel>>
       ELSE /\ pc' = [pc EXCEPT ![p] = "idle"]
            /\ res' = [res EXCEPT ![p] = "StopIteration"]
            /\ baseModel' = [baseModel EXCEPT ![p] = "none"]
    /\ UNCHANGED <<files, dirExists, rce, op, idx, embed, batchVars, datasetVars, driverVars>>

\* path = self.cached_embedding_path(index); if not path.exists(): ...
MakeEmbeddingCheck(p) ==
    /\ pc[p] = "check"
    /\ dirExists' = TRUE
    /\ IF PathExists(files, idx[p])
       THEN ReturnFromMakeEmbedding(p)
       ELSE /\ pc' = [pc EXCEPT ![p] = "build"]
            /\ UNCHANGED <<idx, res, baseModel>>
    /\ UNCHANGED <<files, rce, op, embed, batchVars, datasetVars, driverVars>>

\* self.collate_fn([self[index]]), extract_features, .cpu().clone(): an error of
\* self[index] leaves make_embedding (and the loop around it) as an exception.
MakeEmbeddingBuild(p) ==
    /\ pc[p] = "build"
    /\ \E got \in GetItemResult(rce[p], files, idx[p]) :
          IF got \in LoadErrors
          THEN /\ pc' = [pc EXCEPT ![p] = "idle"]
               /\ res' = [res EXCEPT ![p] = got]
               /\ embed' = embed
               /\ baseModel' = [baseModel EXCEPT ![p] = "none"]
          ELSE /\ pc' = [pc EXCEPT ![p] = "save"]
               /\ res' = res
               /\ baseModel' = baseModel
               /\ \E e \in Embeddings : embed' = [embed EXCEPT ![p] = e]
    /\ UNCHANGED <<files, dirExists, rce, op, idx, batchVars, datasetVars, driverVars>>

\* torch.save(embed, str(path)) opens the path itself for writing, which
\* empties whatever is there, also what another writer has put there so far ...
TorchSaveOpen(p) ==
    /\ pc[p] = "save"
    /\ files' = [files EXCEPT ![idx[p]] = Emptied]
    /\ pc' = [pc EXCEPT ![p] = "write_head"]
    /\ UNCHANGED <<dirExists, rce, op, idx, res, embed, baseModel, batchVars, datasetVars, driverVars>>

\* ... writes the pieces of its embedding in order, into the file as it is by
\* then ...
TorchSaveWrite(p) ==
    /\ pc[p] \in {"write_head", "write_rest"}
    /\ files' = [files EXCEPT ![idx[p]] =
                     WritePiece(@, idx[p], IF pc[p] = "write_head" THEN "head" ELSE "rest",
                                embed[p])]
    /\ pc' = [pc EXCEPT ![p] = IF pc[p] = "write_head" THEN "write_rest" ELSE "close"]
    /\ UNCHANGED <<dirExists, rce, op, idx, res, embed, baseModel, batchVars, datasetVars, driverVars>>

\* ... and closes it: make_embedding returns, whatever the file holds now.
TorchSaveClose(p) ==
    /\ pc[p] = "close"
    /\ ReturnFromMakeEmbedding(p)
    /\ embed' = [embed EXCEPT ![p] = "none"]
    /\ UNCHANGED <<files, dirExists, rce, op, batchVars, datasetVars, driverVars>>

\* load_cached_embedding(index) is called.
CallLoadCachedEmbedding(p, i) ==
    /\ pc[p] = "idle"
    /\ pc' = [pc EXCEPT ![p] = "load"]
    /\ op' = [op EXCEPT ![p] = "load_cached_embedding"]
    /\ idx' = [idx EXCEPT ![p] = i]
    /\ res' = [res EXCEPT ![p] = "none"]
    /\ UNCHANGED <<files, dirExists, rce, embed, baseModel, batchVars, datasetVars, driverVars>>

\* path = self.cached_embedding_path(index); embed = torch.load(path)
LoadCachedEmbedding(p) ==
    /\ pc[p] = "load"
    /\ dirExists' = TRUE
    /\ \E got \in TorchLoad(files, idx[p]) : res' = [res EXCEPT ![p] = got]
    /\ pc' = [pc EXCEPT ![p] = "idle"]
    /\ UNCHANGED <<files, rce, op, idx, embed, baseModel, batchVars, datasetVars, driverVars>>

\* self[index] is called.
CallGetItem(p, i) ==
    /\ pc[p] = "idle"
    /\ pc' = [pc EXCEPT ![p] = "get"]
    /\ op' = [op EXCEPT ![p] = "getitem"]
    /\ idx' = [idx EXCEPT ![p] = i]
    /\ res' = [res EXCEPT ![p] = "none"]
    /\ UNCHANGED <<files, dirExists, rce, embed, baseModel, batchVars, datasetVars, driverVars>>

\* __getitem__: if self.return_cached_embeddings: embed = self.load_cached_embedding(index)
GetItem(p) ==
    /\ pc[p] = "get"
    /\ dirExists' = (dirExists \/ rce[p])
    /\ \E got \in GetItemResult(rce[p], files, idx[p]) : res' = [res EXCEPT ![p] = got]
    /\ pc' = [pc EXCEPT ![p] = "idle"]
    /\ UNCHANGED <<files, rce, op, idx, embed, baseModel, batchVars, datasetVars, driverVars>>

\* The process is terminated in the middle of a call.
Terminate(p) ==
    /\ pc[p] \notin {"idle", "dead"}
    /\ pc' = [pc EXCEPT ![p] = "dead"]
    /\ UNCHANGED <<files, dirExists, rce, op, idx, res, embed, baseModel, batchVars, datasetVars, driverVars>>

CacheNext ==
    \E p \in Procs :
        \/ \E i \in Indices : CachedEmbeddingPath(p, i)
        \/ \E i \in Indices, m \in BaseModels : CallMakeEmbedding(p, i, m)
        \/ \E m \in BaseModels : CallMakeAllEmbeddings(p, m)
        \/ MakeEmbeddingDevice(p)
        \/ MakeEmbeddingCheck(p)
        \/ MakeEmbeddingBuild(p)
        \/ TorchSaveOpen(p)
        \/ TorchSaveWrite(p)
        \/ TorchSaveClose(p)
        \/ \E i \in Indices : CallLoadCachedEmbedding(p, i)
        \/ LoadCachedEmbedding(p)
        \/ \E i \in Indices : CallGetItem(p, i)
        \/ GetItem(p)
        \/ Terminate(p)

SpecCache == CacheInit /\ [][CacheNext]_vars

(***************************************************************************)
(* Claims about the embedding cache, checked under SpecCache.              *)
(***************************************************************************)

C2_PopulationPassSucceeds ==
    \A p \in Procs :
        /\ op[p] \in {"make_embedding", "make_all_embeddings"}
              => res[p] \notin LoadErrors
        /\ (op[p] = "make_all_embeddings" /\ res[p] = "returned")
              => \A i \in Indices : files[i].kind # "absent"

\* C3: cache writes are atomic: a cache path is absent or holds a completely
\* written tensor, and no reader's load fails on a truncated file.
C3_AtomicWrites ==
    /\ \A i \in Indices : files[i].kind \in {"absent", "tensor"}
    /\ \A p \in Procs : res[p] # "UnpicklingError"

\* C4: a cache miss is fatal on the read path. When load_cached_embedding, or
\* __getitem__ of a dataset that returns cached embeddings, runs on an index whose
\* entry is absent, it ends in FileNotFoundError and no file changes.
C4_CacheMissIsFatal ==
    [][\A p \in Procs :
          ( /\ pc[p] \in {"load", "get"}
            /\ pc[p] = "get" => rce[p]
            /\ files[idx[p]].kind = "absent"
            /\ pc'[p] = "idle" )
          => /\ res'[p] = "FileNotFoundError"
             /\ files' = files]_vars

\* C4 witness: a read of an absent entry has failed and the entry is still absent.
C4_Witness ==
    \E p \in Procs :
        /\ op[p] \in {"load_cached_embedding", "getitem"}
        /\ pc[p] = "idle"
        /\ res[p] = "FileNotFoundError"
        /\ files[idx[p]].kind = "absent"

(***************************************************************************)
(* collate_fn and forward.  A 1-D tensor is a sequence of numbers, a 2-D   *)
(* tensor a sequence of rows, a 3-D tensor a sequence of 2-D tensors.      *)
(***************************************************************************)
NoCache ==
    /\ files = [i \in Indices |-> Absent]
    /\ dirExists = FALSE
    /\ rce = [p \in Procs |-> FALSE]
    /\ pc = [p \in Procs |-> "idle"]
    /\ op = [p \in Procs |-> "none"]
    /\ idx = [p \in Procs |-> 0]
    /\ res = [p \in Procs |-> "none"]
    /\ embed = [p \in Procs |-> "none"]
    /\ baseModel = [p \in Procs |-> "none"]

\* self.pad_idx, the tokenizer's padding index.
PadIdx == 0

Max(a, b) == IF a >= b THEN a ELSE b

RECURSIVE MaxOf(_)
MaxOf(s) == IF s = <<>> THEN 0 ELSE Max(Head(s), MaxOf(Tail(s)))

\* pad_sequences on 1-D tensors: every sequence copied into the front of a row
\* of the longest one's length, the rest of the row holding constant_value.
PadSequences1D(sequences, constant_value) ==
    LET width == MaxOf([b \in 1 .. Len(sequences) |-> Len(sequences[b])]) IN
    [b \in 1 .. Len(sequences) |->
        [c \in 1 .. width |->
            IF c <= Len(sequences[b]) THEN sequences[b][c] ELSE constant_value]]

\* pad_sequences on 2-D tensors: the same along both axes.
PadSequences2D(sequences, constant_value) ==
    LET rows == MaxOf([b \in 1 .. Len(sequences) |-> Len(sequences[b])])
        width == MaxOf([b \in 1 .. Len(sequences) |-> Len(sequences[b][1])]) IN
    [b \in 1 .. Len(sequences) |->
        [r \in 1 .. rows |->
            [c \in 1 .. width |->
                IF r <= Len(sequences[b]) /\ c <= Len(sequences[b][1])
                THEN sequences[b][r][c] ELSE constant_value]]]

PadSequences(sequences, constant_value, msa) ==
    IF msa THEN PadSequences2D(sequences, constant_value)
    ELSE PadSequences1D(sequences, constant_value)

\* A faulty length, el["src_tokens"].size(0): the number of rows of an MSA
\* stack.  C5 must fail with it.
SizeFirst(tokens, msa) == Len(tokens)

\* el["src_tokens"].size(-1), the size of the last axis.
SizeLast(tokens, msa) == IF msa THEN Len(tokens[1]) ELSE Len(tokens)

\* collate_fn(batch)
CollateFn(b, msa, cached) ==
    [status |-> "done",
     src_tokens |-> PadSequences([i \in 1 .. Len(b) |-> b[i].src_tokens], PadIdx, msa),
     src_lengths |-> [i \in 1 .. Len(b) |-> SizeLast(b[i].src_tokens, msa)],
     log_fluorescence |-> [i \in 1 .. Len(b) |-> <<b[i].log_fluorescence>>],
     has_features |-> cached,
     features |-> IF cached
                  THEN PadSequences1D([i \in 1 .. Len(b) |-> b[i].features], 0)
                  ELSE <<>>]

\* seqlen_mask(features, lengths): position j (from 0) of example i is valid when
\* j < lengths[i].
SeqlenMask(feat_len, lengths) ==
    [i \in 1 .. Len(lengths) |-> [j \in 1 .. feat_len |-> j - 1 < lengths[i]]]

\* base_model.extract_features(src_tokens, src_lengths): B x L x D, where L is
\* the padded sequence length plus what the base model adds.
ExtractFeaturesLen(src_tokens, msa, extra) ==
    (IF msa THEN Len(src_tokens[1][1]) ELSE Len(src_tokens[1])) + extra

\* masked_fill(~mask, -10000) and softmax(1): the positions that get a share of
\* the attention.  A masked position gets none beside an unmasked one; when all
\* are masked their scores are equal and the softmax is uniform over all.
AttentionSupport(mask_row) ==
    IF \E j \in DOMAIN mask_row : mask_row[j]
    THEN {j \in DOMAIN mask_row : mask_row[j]}
    ELSE DOMAIN mask_row

\* forward(src_tokens, src_lengths, features)
Forward(net, msa, extra) ==
    LET feat_len == IF net.has_features THEN Len(net.features[1])
                    ELSE ExtractFeaturesLen(net.src_tokens, msa, extra)
        token_len == Len(net.src_tokens[1])
        eff == [i \in 1 .. Len(net.src_lengths) |->
                   net.src_lengths[i] - (token_len - feat_len)]
        mask == SeqlenMask(feat_len, eff) IN
    [status |-> "done",
     feat_len |-> feat_len,
     eff |-> eff,
     mask |-> mask,
     attended |-> [i \in 1 .. Len(eff) |-> AttentionSupport(mask[i])],
     out_shape |-> <<Len(net.src_lengths), 1>>]

\* The records of a dataset, as far as a batch shows them: the token rows
\* __getitem__ makes of a record, its target and its cached features.
Tokens1D(w, v) == [c \in 1 .. w |-> 1 + ((c + v) % 2)]

Tokens2D(r, w, v) == [i \in 1 .. r |-> [c \in 1 .. w |-> 1 + ((i + c + v) % 2)]]

Bundles(msa, cached, extra) ==
    { [src_tokens |-> IF msa THEN Tokens2D(shape[1], shape[2], v)
                      ELSE Tokens1D(shape[2], v),
       log_fluorescence |-> v,
       features |-> IF cached THEN [c \in 1 .. shape[2] + extra |-> 1] ELSE <<>>] :
        shape \in (IF msa THEN (2 .. MaxRows) \X (1 .. MaxWidth)
                   ELSE {1} \X (0 .. MaxWidth)),
        v \in {0, 1} }

BatchInit ==
    /\ NoCache
    /\ NoDataset
    /\ NoDriver
    /\ batchMsa \in BOOLEAN
    /\ batchCached \in BOOLEAN
    /\ featExtra \in {0, 1}
    /\ \E n \in 1 .. MaxBatch :
          batch \in [1 .. n -> Bundles(batchMsa, batchCached, featExtra)]
    /\ collated = [status |-> "none"]
    /\ fwd = [status |-> "none"]

Collate ==
    /\ collated.status = "none"
    /\ collated' = CollateFn(batch, batchMsa, batchCached)
    /\ UNCHANGED <<cacheVars, datasetVars, driverVars, batchMsa, batchCached, featExtra, batch, fwd>>

ForwardStep ==
    /\ collated.status = "done"
    /\ fwd.status = "none"
    /\ fwd' = Forward(collated, batchMsa, featExtra)
    /\ UNCHANGED <<cacheVars, datasetVars, driverVars, batchMsa, batchCached, featExtra, batch, collated>>

BatchNext == Collate \/ ForwardStep

SpecBatch == BatchInit /\ [][BatchNext]_vars

(***************************************************************************)
(* The dataset in MSA mode: __init__, maybe_align_sequence, __getitem__.   *)
(* A sequence is a sequence of one-letter strings.                         *)
(***************************************************************************)
\* max_tokens_per_msa: int = 2 ** 14
DefaultMaxTokens == 16384

\* tokenizer.encode: one token id per letter of the sequence.
TokenId(ch) ==
    CASE ch = "A" -> 5
      [] ch = "W" -> 26
      [] ch = "-" -> 30
      [] OTHER -> 4

Encode(sequence) == [c \in 1 .. Len(sequence) |-> TokenId(sequence[c])]

\* substitution_matrices.load("BLOSUM62"), on the residues of the model.
Blosum62(a, b) ==
    CASE a = "A" /\ b = "A" -> 4
      [] a = "W" /\ b = "W" -> 11
      [] OTHER -> -3

\* An aligner left with its default target_open_gap_score: C6 must fail with it.
TargetOpenGapScoreDefault == "0"

\* target_open_gap_score=-float("inf"); every other gap score keeps the
\* aligner's default, 0.
TargetOpenGapScore == "-inf"

\* The global alignments of the first i letters of the target with the first j
\* of the query, each a sequence of columns: "M" pairs a target letter with a
\* query letter, "Q" puts a gap in the query, "T" puts a gap in the target.
RECURSIVE AlignPaths(_, _)
AlignPaths(i, j) ==
    IF i = 0 /\ j = 0 THEN {<<>>}
    ELSE (IF i > 0 /\ j > 0
          THEN {Append(path, "M") : path \in AlignPaths(i - 1, j - 1)} ELSE {})
         \cup (IF i > 0 THEN {Append(path, "Q") : path \in AlignPaths(i - 1, j)} ELSE {})
         \cup (IF j > 0 THEN {Append(path, "T") : path \in AlignPaths(i, j - 1)} ELSE {})

\* How many of the first k columns of a path consume a target (a query) letter.
TargetPos(path, k) == Cardinality({x \in 1 .. k : path[x] \in {"M", "Q"}})

QueryPos(path, k) == Cardinality({x \in 1 .. k : path[x] \in {"M", "T"}})

RECURSIVE SubstitutionSum(_, _, _, _)
SubstitutionSum(path, k, target, query) ==
    IF k = 0 THEN 0
    ELSE SubstitutionSum(path, k - 1, target, query)
         + (IF path[k] = "M"
            THEN Blosum62(target[TargetPos(path, k)], query[QueryPos(path, k)])
            ELSE 0)

\* The score of an alignment: minus infinity as soon as a gap is opened in the
\* target, else the sum of the substitution scores (gaps in the query cost 0).
AlignScore(path, target, query) ==
    [neg_inf |-> TargetOpenGapScore = "-inf" /\ \E k \in DOMAIN path : path[k] = "T",
     value |-> SubstitutionSum(path, Len(path), target, query)]

ScoreLess(a, b) ==
    \/ a.neg_inf /\ ~b.neg_inf
    \/ a.neg_inf = b.neg_inf /\ ~a.neg_inf /\ a.value < b.value

\* str(alignment).split("\n")[2]: the query's row of the printed alignment.
QueryRow(path, query) ==
    [k \in 1 .. Len(path) |-> IF path[k] = "Q" THEN "-" ELSE query[QueryPos(path, k)]]

\* self.aligner.align(self.reference, sequence)[0], then its query row: one of
\* the optimal alignments.  When even the best score is minus infinity every
\* alignment ties, and the aligner may also give none at all.
AlignOutcomes(target, query) ==
    LET paths == AlignPaths(Len(target), Len(query))
        scored == [path \in paths |-> AlignScore(path, target, query)]
        best == {path \in paths : \A other \in paths : ~ScoreLess(scored[path], scored[other])}
    IN {[ok |-> TRUE, row |-> QueryRow(path, query)] : path \in best}
       \cup (IF \A path \in best : scored[path].neg_inf
             THEN {[ok |-> FALSE, row |-> <<>>]} ELSE {})

\* maybe_align_sequence(sequence)
MaybeAlignSequence(use_msa, reference, sequence) ==
    IF ~use_msa \/ Len(sequence) = Len(reference)
    THEN {[ok |-> TRUE, row |-> sequence]}
    ELSE AlignOutcomes(reference, sequence)

\* sequences[:stop] of Python.
PySliceTo(sequences, stop) ==
    LET n == IF stop >= 0 THEN (IF stop < Len(sequences) THEN stop ELSE Len(sequences))
             ELSE (IF Len(sequences) + stop > 0 THEN Len(sequences) + stop ELSE 0)
    IN SubSeq(sequences, 1, n)

\* hhfilter_sequences(msa, diff=...): an order-preserving selection of the rows
\* which keeps the first; a negative diff may also be refused.
RECURSIVE SelectRows(_, _, _)
SelectRows(rows, keep, k) ==
    IF k > Len(rows) THEN <<>>
    ELSE (IF k \in keep THEN <<rows[k]>> ELSE <<>>) \o SelectRows(rows, keep, k + 1)

HHFilterOutcomes(msa, diff) ==
    {[ok |-> TRUE, sequences |-> SelectRows(msa, keep \cup {1}, 1)] :
        keep \in SUBSET (2 .. Len(msa))}
    \cup (IF diff < 0 THEN {[ok |-> FALSE, sequences |-> <<>>]} ELSE {})

\* seqlen = len(encode(data[0]["primary"])); max_num_sequences = max_tokens_per_msa // seqlen
SeqlenOfFirstRecord(records) == Len(Encode(records[1]))

\* sequences_from_msa = max_num_sequences - 1
SequencesFromMsa(budget, records) ==
    (budget \div SeqlenOfFirstRecord(records)) - 1

Letters(alphabet, lo, hi) ==
    UNION {[1 .. n -> alphabet] : n \in lo .. hi}

ContextRow(len) == [c \in 1 .. len |-> "A"]

\* Datasets that differ in their sequences, under the default budget.
AlignInit ==
    /\ dsMsa \in BOOLEAN
    /\ maxTokens = DefaultMaxTokens
    /\ \E reference \in Letters({"A", "W"}, 1, MaxSeqLen) :
          msaFile = <<reference, ContextRow(Len(reference))>>
    /\ \E q \in Letters({"A", "W"}, 1, MaxSeqLen) : data = <<q>>

\* MSA datasets that differ in their budget, their MSA's size and the lengths
\* of the reference and of the first record.
BudgetInit ==
    /\ dsMsa = TRUE
    /\ maxTokens \in 1 .. MaxBudget
    /\ \E reference \in Letters({"A"}, 1, MaxSeqLen), rows \in 1 .. MaxMsaRows :
          msaFile = [k \in 1 .. rows |-> IF k = 1 THEN reference
                                        ELSE ContextRow(Len(reference))]
    /\ \E q \in Letters({"A"}, 1, MaxSeqLen) : data = <<q>>

DatasetInit ==
    /\ NoCache
    /\ NoBatch
    /\ NoDriver
    /\ AlignInit \/ BudgetInit
    /\ ds = [status |-> "none"]
    /\ item = [status |-> "none"]

\* FluorescenceDataset.__init__
Construct ==
    /\ ds.status = "none"
    /\ IF ~dsMsa
       THEN ds' = [status |-> "ok", reference |-> <<>>, msa |-> <<>>]
       ELSE \E filtered \in HHFilterOutcomes(msaFile,
                                SequencesFromMsa(maxTokens, data)) :
              LET chosen == PySliceTo(filtered.sequences,
                                      SequencesFromMsa(maxTokens, data)) IN
              IF ~filtered.ok \/ chosen = <<>>
              THEN ds' = [status |-> "error", reference |-> <<>>, msa |-> <<>>]
              ELSE ds' = [status |-> "ok",
                          reference |-> msaFile[1],
                          msa |-> [k \in 1 .. Len(chosen) |-> Encode(chosen[k])]]
    /\ UNCHANGED <<cacheVars, batchVars, driverVars, dsMsa, maxTokens, data, msaFile, item>>

\* FluorescenceDataset.__getitem__(index), of a dataset that returns no cached
\* embeddings.
DatasetGetItem(index) ==
    /\ ds.status = "ok"
    /\ item.status = "none"
    /\ \E aligned \in MaybeAlignSequence(dsMsa, ds.reference, data[index]) :
          IF ~aligned.ok
          THEN item' = [status |-> "align_error", index |-> index,
                        sequence |-> <<>>, src_tokens |-> <<>>]
          ELSE IF dsMsa /\ Len(Encode(aligned.row)) # Len(ds.msa[1])
          THEN item' = [status |-> "cat_error", index |-> index,
                        sequence |-> aligned.row, src_tokens |-> <<>>]
          ELSE item' = [status |-> "ok", index |-> index,
                        sequence |-> aligned.row,
                        src_tokens |-> IF dsMsa THEN <<Encode(aligned.row)>> \o ds.msa
                                       ELSE Encode(aligned.row)]
    /\ UNCHANGED <<cacheVars, batchVars, driverVars, dsMsa, maxTokens, data, msaFile, ds>>

DatasetNext ==
    \/ Construct
    \/ \E index \in 1 .. Len(data) : DatasetGetItem(index)

SpecDataset == DatasetInit /\ [][DatasetNext]_vars

(***************************************************************************)
(* FluorescencePredictor's training, validation and test hooks.  A column  *)
(* of predictions or targets, of shape (batch, 1), is a sequence.          *)
(***************************************************************************)
Abs(x) == IF x < 0 THEN -x ELSE x

RECURSIVE SumOver(_, _)
SumOver(f, k) == IF k = 0 THEN 0 ELSE f[k] + SumOver(f, k - 1)

\* A faulty lookup, which gives the training metrics in every mode: C10 must
\* fail with it.
MetricAttrOfTrain(mode, kind) == <<"train", kind>>

\* getattr(self, f"mean_{mode}_squared_error"), f"mean_{mode}_absolute_error"
MetricAttr(mode, kind) == <<mode, kind>>

\* pl.metrics.MeanSquaredError / MeanAbsoluteError called on a step's
\* predictions and targets: the running sum and the running count grow.
MetricUpdate(metric, kind, prediction, target) ==
    LET err == [k \in 1 .. Len(prediction) |->
                   IF kind = "squared_error"
                   THEN (prediction[k] - target[k]) * (prediction[k] - target[k])
                   ELSE Abs(prediction[k] - target[k])] IN
    [sum |-> metric.sum + SumOver(err, Len(err)),
     total |-> metric.total + Len(prediction)]

\* nn.MSELoss()(prediction, target): the mean, as <<sum, count>>.
MSELoss(prediction, target) ==
    <<SumOver([k \in 1 .. Len(prediction) |->
                  (prediction[k] - target[k]) * (prediction[k] - target[k])],
              Len(prediction)),
      Len(prediction)>>

\* torch.cat([step[...] for step in outputs], 0)
RECURSIVE CatOutputs(_, _)
CatOutputs(steps, field) ==
    IF steps = <<>> THEN <<>>
    ELSE (IF field = "prediction" THEN Head(steps).prediction ELSE Head(steps).target)
         \o CatOutputs(Tail(steps), field)

\* Twice the rank of x[k] among x, ties sharing the mean of their ranks.
TwiceRank(x, k) ==
    2 * Cardinality({j \in DOMAIN x : x[j] < x[k]})
    + Cardinality({j \in DOMAIN x : x[j] = x[k]}) + 1

\* scipy.stats.spearmanr(x, y): Pearson's correlation of the ranks, given as
\* <<covariance, variance of x's ranks, variance of y's ranks>> (each times n^2
\* and a constant); the correlation is nan when a variance is 0.
Spearmanr(x, y) ==
    LET n == Len(x)
        rx == [k \in 1 .. n |-> TwiceRank(x, k)]
        ry == [k \in 1 .. n |-> TwiceRank(y, k)]
        sx == SumOver(rx, n)
        sy == SumOver(ry, n) IN
    <<n * SumOver([k \in 1 .. n |-> rx[k] * ry[k]], n) - sx * sy,
      n * SumOver([k \in 1 .. n |-> rx[k] * rx[k]], n) - sx * sx,
      n * SumOver([k \in 1 .. n |-> ry[k] * ry[k]], n) - sy * sy>>

Predictions == {0, 1, 2}

Targets == {0, 1}

DriverInit ==
    /\ NoCache
    /\ NoBatch
    /\ NoDataset
    /\ NoDriver

\* training_step / validation_step / test_step: compute_loss(batch, mode), on a
\* batch of one example and whatever the network predicts for it.
Step(mode) ==
    /\ pending.status = "none"
    /\ ~hookError
    /\ globalStep < MaxSteps
    /\ \E p \in Predictions, t \in Targets :
          /\ logged' = [logged EXCEPT ![<<"loss", mode>>] = <<MSELoss(<<p>>, <<t>>)>>]
          /\ pending' = [status |-> "step", mode |-> mode,
                         prediction |-> <<p>>, target |-> <<t>>]
    /\ globalStep' = globalStep + 1
    /\ UNCHANGED <<cacheVars, batchVars, datasetVars, metrics, outputs, hookError>>

\* training_step_end / validation_step_end / test_step_end:
\* compute_and_log_accuracy(outputs, mode); return outputs
StepEnd(mode) ==
    /\ pending.status = "step"
    /\ pending.mode = mode
    /\ LET mse == MetricAttr(mode, "squared_error")
           mae == MetricAttr(mode, "absolute_error")
           updated == [metrics EXCEPT
               ![mse] = MetricUpdate(metrics[mse], "squared_error",
                                     pending.prediction, pending.target),
               ![mae] = MetricUpdate(metrics[mae], "absolute_error",
                                     pending.prediction, pending.target)] IN
       /\ metrics' = updated
       /\ logged' = [logged EXCEPT
               ![<<"mse", mode>>] = <<updated[mse].sum, updated[mse].total>>,
               ![<<"mae", mode>>] = <<updated[mae].sum, updated[mae].total>>]
    /\ outputs' = [outputs EXCEPT ![mode] =
                      IF mode = "train" THEN @
                      ELSE Append(@, [prediction |-> pending.prediction,
                                      target |-> pending.target])]
    /\ pending' = [pending EXCEPT !.status = "none"]
    /\ UNCHANGED <<cacheVars, batchVars, datasetVars, globalStep, hookError>>

\* validation_epoch_end(outputs) / test_epoch_end(outputs): torch.cat raises on
\* an empty list of steps.
EpochEnd(mode) ==
    /\ mode \in {"valid", "test"}
    /\ pending.status = "none"
    /\ ~hookError
    /\ IF outputs[mode] = <<>>
       THEN /\ hookError' = TRUE
            /\ UNCHANGED <<logged, outputs>>
       ELSE /\ logged' = [logged EXCEPT ![<<"spearmanr", mode>>] =
                   <<Spearmanr(CatOutputs(outputs[mode], "prediction"),
                               CatOutputs(outputs[mode], "target"))>>]
            /\ outputs' = [outputs EXCEPT ![mode] = <<>>]
            /\ UNCHANGED hookError
    /\ UNCHANGED <<cacheVars, batchVars, datasetVars, metrics, pending, globalStep>>

DriverNext ==
    \E mode \in Modes :
        \/ Step(mode)
        \/ StepEnd(mode)
        \/ EpochEnd(mode)

SpecDriver == DriverInit /\ [][DriverNext]_vars

(***************************************************************************)
(* Claims about collate_fn and forward, checked under SpecBatch.           *)
(***************************************************************************)

\* C5: for every non-empty batch, collate_fn returns tokens as wide as the
\* widest unpadded token tensor of the batch, every row holding its original
\* tokens up to its true width and the pad index beyond (rows of an MSA stack
\* that the example does not have hold the pad index throughout); src_lengths
\* holds each example's unpadded width, also for 2-D MSA stacks; the targets are
\* stacked in batch order into a (batch, 1) column.
C5_CollatePadsAndKeepsLengths ==
    collated.status = "done" =>
        LET n == Len(batch)
            rowsOf(b) == IF batchMsa THEN batch[b].src_tokens ELSE <<batch[b].src_tokens>>
            paddedOf(b) == IF batchMsa THEN collated.src_tokens[b]
                           ELSE <<collated.src_tokens[b]>>
            widthOf(b) == Len(rowsOf(b)[1])
            widest == CHOOSE w \in {widthOf(b) : b \in 1 .. n} :
                          \A b \in 1 .. n : widthOf(b) <= w
        IN /\ Len(collated.src_tokens) = n
           /\ \A b \in 1 .. n :
                 /\ Len(paddedOf(b)) >= Len(rowsOf(b))
                 /\ \A r \in 1 .. Len(paddedOf(b)) :
                       /\ Len(paddedOf(b)[r]) = widest
                       /\ \A c \in 1 .. widest :
                             paddedOf(b)[r][c] =
                                 IF r <= Len(rowsOf(b)) /\ c <= widthOf(b)
                                 THEN rowsOf(b)[r][c] ELSE PadIdx
                 /\ collated.src_lengths[b] = widthOf(b)
           /\ Len(collated.src_lengths) = n
           /\ collated.log_fluorescence
                 = [b \in 1 .. n |-> <<batch[b].log_fluorescence>>]

\* C5 witness: a collated batch of two MSA stacks of different widths and with
\* other row counts than widths, so that padding was written.
C5_Witness ==
    /\ collated.status = "done"
    /\ batchMsa
    /\ Len(batch) = 2
    /\ Len(batch[1].src_tokens[1]) < Len(batch[2].src_tokens[1])
    /\ Len(batch[1].src_tokens) # Len(batch[1].src_tokens[1])
    /\ collated.src_lengths[1] < collated.src_lengths[2]
    /\ collated.src_tokens[1][1][Len(batch[2].src_tokens[1])] = PadIdx

\* C8: whenever the effective valid length of an example is <= 0 (and there are
\* feature positions at all), forward either rejects the batch or clamps the
\* length, so that the example keeps a valid position and its attention stays
\* on valid positions.
C8_DegenerateMaskHandled ==
    (fwd.status = "done" /\ fwd.feat_len >= 1) =>
        \A i \in DOMAIN fwd.eff :
            fwd.eff[i] <= 0 =>
                /\ \E j \in 1 .. fwd.feat_len : fwd.mask[i][j]
                /\ fwd.attended[i] \subseteq {j \in 1 .. fwd.feat_len : fwd.mask[i][j]}

\* C9: for every batch from collate_fn, with or without MSA stacks and cached
\* features, the mask marks as valid exactly the first
\* src_lengths[i] - (token_len - feat_len) feature positions of example i, where
\* token_len is the padded width of the token sequences of the batch.
C9_MaskMarksUnpaddedPositions ==
    fwd.status = "done" =>
        LET token_len == IF batchMsa THEN Len(collated.src_tokens[1][1])
                         ELSE Len(collated.src_tokens[1])
        IN \A i \in DOMAIN fwd.mask :
              \A j \in 1 .. fwd.feat_len :
                  fwd.mask[i][j]
                     <=> (j <= collated.src_lengths[i] - (token_len - fwd.feat_len))

(***************************************************************************)
(* Claims about the dataset in MSA mode, checked under SpecDataset.        *)
(***************************************************************************)
RECURSIVE WithoutGaps(_)
WithoutGaps(sequence) ==
    IF sequence = <<>> THEN <<>>
    ELSE (IF Head(sequence) = "-" THEN <<>> ELSE <<Head(sequence)>>)
         \o WithoutGaps(Tail(sequence))

\* C6 as stated: in MSA mode every query whose length differs from the
\* reference's, shorter or longer, is aligned to exactly the reference's length.
C6_EveryQueryAlignedToReferenceLength ==
    (item.status # "none" /\ dsMsa /\ Len(data[item.index]) # Len(ds.reference))
        => /\ item.status = "ok"
           /\ Len(item.sequence) = Len(ds.reference)

\* C6 as amended: in MSA mode every query shorter than the reference is aligned
\* to exactly the reference's length by gap symbols put into the query only (the
\* query is what is left without them), a query of the reference's length is
\* taken as it is, and every sequence __getitem__ tokenizes and returns has the
\* reference's length.
C6_ShorterQueryAlignedToReferenceLength ==
    (item.status # "none" /\ dsMsa) =>
        /\ Len(data[item.index]) <= Len(ds.reference)
              => /\ item.status = "ok"
                 /\ Len(item.sequence) = Len(ds.reference)
                 /\ WithoutGaps(item.sequence) = data[item.index]
        /\ Len(data[item.index]) = Len(ds.reference)
              => item.sequence = data[item.index]
        /\ item.status = "ok" => Len(item.sequence) = Len(ds.reference)

\* C6 witness: __getitem__ has returned a shorter query with a gap in it.
C6_Witness ==
    /\ item.status = "ok"
    /\ dsMsa
    /\ Len(data[item.index]) < Len(ds.reference)
    /\ \E k \in DOMAIN item.sequence : item.sequence[k] = "-"
    /\ Len(item.sequence) = Len(ds.reference)

\* C7: every dataset constructed in MSA mode holds at most
\* floor(budget / reference token length) - 1 context sequences, so that the
\* query row and the block, each of the reference's token length, stay within
\* max_tokens_per_msa, as do the tokens of every example __getitem__ returns.
C7_TokenBudgetKept ==
    (ds.status = "ok" /\ dsMsa) =>
        LET reflen == Len(Encode(ds.reference)) IN
        /\ Len(ds.msa) <= (maxTokens \div reflen) - 1
        /\ (1 + Len(ds.msa)) * reflen <= maxTokens
        /\ item.status = "ok"
              => Len(item.src_tokens) * Len(item.src_tokens[1]) <= maxTokens

(***************************************************************************)
(* The claim about the hooks, checked under SpecDriver.                    *)
(***************************************************************************)

\* C10: a step in mode m changes only m's two metric objects, by this step's
\* prediction and target, and logs only under m's keys; a Spearman correlation
\* is logged only at the end of a validation or test epoch, over all that
\* epoch's predictions and targets in step order, and never for train.
C10_ModeIsolation ==
    [][/\ \A attr \in Modes \X MetricKinds :
             metrics'[attr] # metrics[attr]
                => /\ pending.status = "step" /\ pending'.status = "none"
                   /\ attr[1] = pending.mode
                   /\ metrics'[attr] = MetricUpdate(metrics[attr], attr[2],
                                           pending.prediction, pending.target)
       /\ (pending.status = "step" /\ pending'.status = "none")
             => \A kind \in MetricKinds :
                   metrics'[<<pending.mode, kind>>].total
                      = metrics[<<pending.mode, kind>>].total + Len(pending.prediction)
       /\ \A key \in LogKeys :
             logged'[key] # logged[key]
                => \/ /\ key[1] = "loss"
                      /\ pending.status = "none" /\ pending'.status = "step"
                      /\ pending'.mode = key[2]
                   \/ /\ key[1] \in {"mse", "mae"}
                      /\ pending.status = "step" /\ pending'.status = "none"
                      /\ pending.mode = key[2]
                   \/ /\ key[1] = "spearmanr"
                      /\ key[2] \in {"valid", "test"}
                      /\ outputs[key[2]] # <<>> /\ outputs'[key[2]] = <<>>
                      /\ logged'[key] =
                            <<Spearmanr(CatOutputs(outputs[key[2]], "prediction"),
                                        CatOutputs(outputs[key[2]], "target"))>>
       /\ logged'[<<"spearmanr", "train">>] = <<>>]_vars

\* C10 witness: after a training step and two validation steps the validation
\* epoch has ended and its correlation is logged; the test metrics are untouched.
C10_Witness ==
    /\ logged[<<"spearmanr", "valid">>] # <<>>
    /\ metrics[<<"train", "squared_error">>].total = 1
    /\ metrics[<<"valid", "squared_error">>].total = 2
    /\ metrics[<<"valid", "absolute_error">>].sum > 0
    /\ metrics[<<"test", "squared_error">>].total = 0
    /\ logged[<<"mse", "train">>] # <<>>
    /\ logged[<<"mae", "test">>] = <<>>

====
